---- MODULE Spec2Model ----
(***************************************************************************)
(* Model of ts-null-assert-codemod (src/main.ts), in four parts:           *)
(*                                                                         *)
(*  - the fixed-point driver (function main): the loop over the analyzer's *)
(*    diagnostics, the skip set, the jump over the diagnostics of a file   *)
(*    that was just mutated, and the save-and-requery step (Spec,          *)
(*    SpecLive, SpecRerun);                                                *)
(*  - the text mutator appendBang on node texts (SpecBang);                *)
(*  - the node search findDeepestNode on syntax trees (SpecFind);          *)
(*  - the resolver fixDig on syntax trees with symbols (SpecResolver).     *)
(*                                                                         *)
(* The analyzer (project.getPreEmitDiagnostics) and the syntax trees are   *)
(* external to the driver.  In the driver's specifications a diagnostic    *)
(* carries, next to the fields the driver reads, the result the resolver   *)
(* has on the tree the diagnostic was computed from ("fixable").  Strings  *)
(* are sequences of one-character strings, so that the hash of a           *)
(* diagnostic is the concatenation the code computes.  The cursor i is     *)
(* 0-based as in the code.                                                 *)
(***************************************************************************)
EXTENDS Integers, Sequences, FiniteSets, TLC

VARIABLES
  diagnostics,   \* main.ts:162,209  the current diagnostic list
  i,             \* main.ts:166      the cursor of the for loop (0-based)
  skippedDigs,   \* main.ts:164      hashes of the diagnostics that failed
  pc,            \* position in main: "loop", "saving" (at the await of
                 \* main.ts:208), "saved" (after it), "done"
  dirty,         \* files whose text was replaced since the last project.save()
  examined,      \* indices the loop body has run on since the list was obtained
  staleSkipped,  \* indices jumped over by the while loop of main.ts:201
  ev,            \* what the last step did, and on which index
  reloads,       \* number of lists obtained after the initial one
  failedIds,     \* identities (msg, line, file) whose fix attempt failed
  fixedNow,      \* indices of the current list whose fix succeeded
  fixedBefore,   \* identities fixed in earlier generations of this run
  run,           \* 1 for the first run of the program, 2 for a second run
  bang,          \* main.ts:31-44   one call of appendBang: its text and result
  tree,          \* the syntax trees of the project that fixDig walks
  fx,            \* main.ts:50-128  the state of one call of fixDig from main
  found          \* main.ts:12-25   one call of findDeepestNode and its result

\* the state of the driver
driverVars == <<diagnostics, i, skippedDigs, pc, dirty, examined, staleSkipped,
                ev, reloads, failedIds, fixedNow, fixedBefore, run>>

\* the state of the resolver and of the text mutator
resolverVars == <<bang, tree, fx, found>>

vars == <<driverVars, resolverVars>>

\* ---------------------------------------------------------------- bounds
MaxLen == 3
MaxReloads == 1

\* ---------------------------------------------------------------- strings
Undefined == <<"u", "n", "d", "e", "f", "i", "n", "e", "d">>

\* String.prototype.includes
Includes(s, t) ==
  \E k \in 1..(Len(s) - Len(t) + 1) : SubSeq(s, k, k + Len(t) - 1) = t

DigitChar(n) ==
  CASE n = 0 -> "0" [] n = 1 -> "1" [] n = 2 -> "2" [] n = 3 -> "3"
    [] n = 4 -> "4" [] n = 5 -> "5" [] n = 6 -> "6" [] n = 7 -> "7"
    [] n = 8 -> "8" [] n = 9 -> "9"

\* the decimal digits a template literal prints for a number
RECURSIVE Digits(_)
Digits(n) == IF n < 10 THEN <<DigitChar(n)>>
             ELSE Digits(n \div 10) \o <<DigitChar(n % 10)>>

\* ---------------------------------------------------------------- inputs
Messages == { Undefined, <<"n", "u", "l", "l">> }
Lines    == {1}
Files    == { <<"/", "a">>, <<"/", "b">> }

HasKeyword(d) == Includes(d.msg, Undefined)

\* the diagnostics the analyzer can report; the resolver is never run on a
\* diagnostic without the keyword, whose "fixable" is fixed to FALSE
Diags == { d \in [msg : Messages, line : Lines, file : Files, fixable : BOOLEAN] :
             HasKeyword(d) \/ ~d.fixable }

RECURSIVE SeqsUpTo(_, _)
SeqsUpTo(S, n) ==
  IF n = 0 THEN { <<>> }
  ELSE LET shorter == SeqsUpTo(S, n - 1)
       IN  shorter \cup { Append(s, x) : s \in { t \in shorter : Len(t) = n - 1 }, x \in S }

DiagLists == SeqsUpTo(Diags, MaxLen)

\* diagnostics[k] of the code, k 0-based
At(ds, k) == ds[k + 1]

\* ---------------------------------------------------------------- driver helpers
Identity(d) == <<d.msg, d.line, d.file>>

\* main.ts:176  `${msg}${dig.getLineNumber()}${filePath}`
digHash(d) == d.msg \o Digits(d.line) \o d.file

\* the filter without the look-up in the skip set
ShouldSkipNoSet(d, skipped) == ~Includes(d.msg, Undefined)

\* the filter with && in place of ||
ShouldSkipAnd(d, skipped) == ~Includes(d.msg, Undefined) /\ digHash(d) \in skipped

\* main.ts:178  the condition of the `continue`
ShouldSkip(d, skipped) == ~Includes(d.msg, Undefined) \/ digHash(d) \in skipped

\* main.ts:201-203  the cursor after the while loop
RECURSIVE SkipSameFile(_, _, _)
SkipSameFile(ds, k, file) ==
  IF k + 1 < Len(ds) /\ At(ds, k + 1).file = file
  THEN SkipSameFile(ds, k + 1, file)
  ELSE k

\* main.ts:206  the condition of the save
ReloadCond(ds, k) == k = Len(ds) - 2 \/ ~(k + 1 < Len(ds))

\* main.ts:185-188  what fixDig does for this diagnostic: the tree of a file
\* that was mutated since the diagnostics were computed no longer matches the
\* offsets, and the call can then find any node or none
Outcomes(d, dirtyFiles) == IF d.file \in dirtyFiles THEN BOOLEAN ELSE {d.fixable}

\* main.ts:84-124  the file that holds the node fixDig replaces: the
\* diagnostic's file or the file of the value declaration of the identifier
FixTargets(d) == Files

\* ---------------------------------------------------------------- the program
\* no call of fixDig, findDeepestNode or appendBang is looked into
ResolverIdle ==
  /\ bang = [in |-> <<>>, out |-> <<>>, done |-> FALSE]
  /\ tree = [parent |-> <<>>, kind |-> <<>>, sym |-> <<>>]
  /\ fx = [pc |-> "idle"]
  /\ found = [done |-> FALSE]

Init ==
  /\ diagnostics \in DiagLists
  /\ i = 0
  /\ skippedDigs = {}
  /\ pc = "loop"
  /\ dirty = {}
  /\ examined = {}
  /\ staleSkipped = {}
  /\ ev = [type |-> "start", idx |-> 0]
  /\ reloads = 0
  /\ failedIds = {}
  /\ fixedNow = {}
  /\ fixedBefore = {}
  /\ run = 1
  /\ ResolverIdle

\* main.ts:166-178  an iteration that ends at the first `continue`
LoopFiltered ==
  /\ pc = "loop"
  /\ i < Len(diagnostics)
  /\ ShouldSkip(At(diagnostics, i), skippedDigs)
  /\ i' = i + 1
  /\ examined' = examined \cup {i}
  /\ ev' = [type |-> "filtered", idx |-> i]
  /\ UNCHANGED resolverVars
  /\ UNCHANGED <<diagnostics, skippedDigs, pc, dirty, staleSkipped, reloads,
                 failedIds, fixedNow, fixedBefore, run>>

\* the failing iteration without skippedDigs.add
LoopFailedNoAdd ==
  /\ pc = "loop"
  /\ i < Len(diagnostics)
  /\ ~ShouldSkip(At(diagnostics, i), skippedDigs)
  /\ FALSE \in Outcomes(At(diagnostics, i), dirty)
  /\ \E how \in {"none", "throws"} : ev' = [type |-> how, idx |-> i]
  /\ failedIds' = failedIds \cup {Identity(At(diagnostics, i))}
  /\ i' = i + 1
  /\ examined' = examined \cup {i}
  /\ UNCHANGED resolverVars
  /\ UNCHANGED <<diagnostics, skippedDigs, pc, dirty, staleSkipped, reloads,
                 fixedNow, fixedBefore, run>>

\* the failing iteration without its `continue`: it goes on to the jump over
\* the diagnostics of the same file and to the save
LoopFailedNoContinue ==
  /\ pc = "loop"
  /\ i < Len(diagnostics)
  /\ ~ShouldSkip(At(diagnostics, i), skippedDigs)
  /\ FALSE \in Outcomes(At(diagnostics, i), dirty)
  /\ \E how \in {"none", "throws"} : ev' = [type |-> how, idx |-> i]
  /\ skippedDigs' = skippedDigs \cup {digHash(At(diagnostics, i))}
  /\ failedIds' = failedIds \cup {Identity(At(diagnostics, i))}
  /\ LET j == SkipSameFile(diagnostics, i, At(diagnostics, i).file)
     IN  /\ staleSkipped' = staleSkipped \cup ((i + 1)..j)
         /\ IF ReloadCond(diagnostics, j)
            THEN pc' = "saving" /\ i' = j
            ELSE pc' = "loop" /\ i' = j + 1
  /\ examined' = examined \cup {i}
  /\ UNCHANGED resolverVars
  /\ UNCHANGED <<diagnostics, dirty, reloads, fixedNow, fixedBefore, run>>

\* main.ts:166-197  an iteration whose fix attempt fails: fixDig returns false
\* ("none") or throws and the catch leaves success false ("throws")
LoopFailed ==
  /\ pc = "loop"
  /\ i < Len(diagnostics)
  /\ ~ShouldSkip(At(diagnostics, i), skippedDigs)
  /\ FALSE \in Outcomes(At(diagnostics, i), dirty)
  /\ \E how \in {"none", "throws"} : ev' = [type |-> how, idx |-> i]
  /\ skippedDigs' = skippedDigs \cup {digHash(At(diagnostics, i))}
  /\ failedIds' = failedIds \cup {Identity(At(diagnostics, i))}
  /\ i' = i + 1
  /\ examined' = examined \cup {i}
  /\ UNCHANGED resolverVars
  /\ UNCHANGED <<diagnostics, pc, dirty, staleSkipped, reloads, fixedNow,
                 fixedBefore, run>>

\* main.ts:166-207  an iteration whose fix attempt succeeds: one text is
\* replaced, the cursor jumps over the following diagnostics of the same file,
\* and the loop either goes on or stops at the await of project.save()
LoopFixed ==
  /\ pc = "loop"
  /\ i < Len(diagnostics)
  /\ ~ShouldSkip(At(diagnostics, i), skippedDigs)
  /\ TRUE \in Outcomes(At(diagnostics, i), dirty)
  /\ \E g \in FixTargets(At(diagnostics, i)) : dirty' = dirty \cup {g}
  /\ LET j == SkipSameFile(diagnostics, i, At(diagnostics, i).file)
     IN  /\ staleSkipped' = staleSkipped \cup ((i + 1)..j)
         /\ IF ReloadCond(diagnostics, j)
            THEN pc' = "saving" /\ i' = j
            ELSE pc' = "loop" /\ i' = j + 1
  /\ examined' = examined \cup {i}
  /\ ev' = [type |-> "fixed", idx |-> i]
  /\ fixedNow' = fixedNow \cup {i}
  /\ UNCHANGED resolverVars
  /\ UNCHANGED <<diagnostics, skippedDigs, reloads, failedIds, fixedBefore, run>>

\* main.ts:208  project.save(): the edits are written to the files.  The
\* list is not looked at again, and the record of what was done on it ends
Save ==
  /\ pc = "saving"
  /\ pc' = "saved"
  /\ dirty' = {}
  /\ fixedBefore' = fixedBefore \cup {Identity(At(diagnostics, k)) : k \in fixedNow}
  /\ fixedNow' = {}
  /\ examined' = {}
  /\ staleSkipped' = {}
  /\ ev' = [type |-> "saved", idx |-> 0]
  /\ UNCHANGED resolverVars
  /\ UNCHANGED <<diagnostics, i, skippedDigs, reloads, failedIds, run>>

\* main.ts:209-210 and the i++ of main.ts:166: the analyzer returns a new
\* list, the cursor is set to 0, and the loop's increment then makes it 1
Requery ==
  /\ pc = "saved"
  /\ reloads < MaxReloads
  /\ diagnostics' \in DiagLists
  /\ i' = 0 + 1
  /\ pc' = "loop"
  /\ reloads' = reloads + 1
  /\ ev' = [type |-> "reloaded", idx |-> 0]
  /\ UNCHANGED resolverVars
  /\ UNCHANGED <<skippedDigs, dirty, examined, staleSkipped, failedIds, fixedNow,
                 fixedBefore, run>>

\* the end of the list leading to the save instead of the return
ExitReloads ==
  /\ pc = "loop"
  /\ ~(i < Len(diagnostics))
  /\ pc' = "saving"
  /\ ev' = [type |-> "exit", idx |-> 0]
  /\ UNCHANGED resolverVars
  /\ UNCHANGED <<diagnostics, i, skippedDigs, dirty, examined, staleSkipped,
                 reloads, failedIds, fixedNow, fixedBefore, run>>

\* main.ts:166  the loop condition fails and main returns
Exit ==
  /\ pc = "loop"
  /\ ~(i < Len(diagnostics))
  /\ pc' = "done"
  /\ ev' = [type |-> "exit", idx |-> 0]
  /\ UNCHANGED resolverVars
  /\ UNCHANGED <<diagnostics, i, skippedDigs, dirty, examined, staleSkipped,
                 reloads, failedIds, fixedNow, fixedBefore, run>>

Next == LoopFiltered \/ LoopFailed \/ LoopFixed \/ Save \/ Requery \/ Exit

Spec == Init /\ [][Next]_vars

\* main.ts:209-210 as Requery, for runs of any length: the lists obtained are
\* counted up to MaxReloads only
RequeryLive ==
  /\ pc = "saved"
  /\ diagnostics' \in DiagLists
  /\ i' = 0 + 1
  /\ pc' = "loop"
  /\ reloads' = IF reloads < MaxReloads THEN reloads + 1 ELSE reloads
  /\ ev' = [type |-> "reloaded", idx |-> 0]
  /\ UNCHANGED resolverVars
  /\ UNCHANGED <<skippedDigs, dirty, examined, staleSkipped, failedIds, fixedNow,
                 fixedBefore, run>>

NextLive == LoopFiltered \/ LoopFailed \/ LoopFixed \/ Save \/ RequeryLive \/ Exit

\* main runs on one thread and every step of it is taken once it is possible
SpecLive == Init /\ [][NextLive]_vars /\ WF_vars(NextLive)

\* main.ts:148-166  the program is started again after it returned: a new
\* project is loaded from the files on disk, which are as the last
\* project.save() left them, so the analyzer returns the list it returned
\* after that save (the initial list if nothing was saved); edits that were
\* not saved are gone and the skip set is new
Rerun ==
  /\ pc = "done"
  /\ run = 1
  /\ run' = 2
  /\ i' = 0
  /\ skippedDigs' = {}
  /\ pc' = "loop"
  /\ dirty' = {}
  /\ examined' = {}
  /\ staleSkipped' = {}
  /\ failedIds' = {}
  /\ fixedNow' = {}
  /\ fixedBefore' = {}
  /\ ev' = [type |-> "start", idx |-> 0]
  /\ UNCHANGED resolverVars
  /\ UNCHANGED <<diagnostics, reloads>>

NextRerun == Next \/ Rerun

SpecRerun == Init /\ [][NextRerun]_vars

\* ---------------------------------------------------------------- text mutator
MaxText == 4

\* the characters of a node text: a letter, the statement terminator, a blank
Chars == {"a", ";", " "}

Texts == UNION { [1..n -> Chars] : n \in 0..MaxText }

\* String.prototype.trim
RECURSIVE TrimEnd(_)
TrimEnd(s) == IF Len(s) > 0 /\ s[Len(s)] = " " THEN TrimEnd(SubSeq(s, 1, Len(s) - 1)) ELSE s

RECURSIVE TrimStart(_)
TrimStart(s) == IF Len(s) > 0 /\ s[1] = " " THEN TrimStart(Tail(s)) ELSE s

Trim(s) == TrimStart(TrimEnd(s))

\* main.ts:32-39  the text appendBang passes to replaceWithText
appendBang(nText) ==
  LET nHasSemi == Len(Trim(nText)) > 0 /\ Trim(nText)[Len(Trim(nText))] = ";"
  IN  IF nHasSemi
      THEN SubSeq(nText, 1, Len(nText) - 1) \o <<"!">> \o <<";">>
      ELSE nText \o <<"!">>

\* the driver does not run
DriverIdle ==
  /\ diagnostics = <<>>
  /\ i = 0
  /\ skippedDigs = {}
  /\ pc = "idle"
  /\ dirty = {}
  /\ examined = {}
  /\ staleSkipped = {}
  /\ ev = [type |-> "idle", idx |-> 0]
  /\ reloads = 0
  /\ failedIds = {}
  /\ fixedNow = {}
  /\ fixedBefore = {}
  /\ run = 1

InitBang ==
  /\ DriverIdle
  /\ \E t \in Texts : bang = [in |-> t, out |-> <<>>, done |-> FALSE]
  /\ tree = [parent |-> <<>>, kind |-> <<>>, sym |-> <<>>]
  /\ fx = [pc |-> "idle"]
  /\ found = [done |-> FALSE]

\* main.ts:31-44  appendBang(node) on a node with the text bang.in
AppendBang ==
  /\ ~bang.done
  /\ bang' = [in |-> bang.in, out |-> appendBang(bang.in), done |-> TRUE]
  /\ UNCHANGED <<tree, fx, found>>
  /\ UNCHANGED driverVars

NextBang == AppendBang

SpecBang == InitBang /\ [][NextBang]_vars

\* ---------------------------------------------------------------- syntax trees
MaxNodes == 3

\* the two source files of the project; every other node is numbered 1..n in
\* document order (pre-order), and parent[n] is a smaller node or a source file
SourceFileA == -1
SourceFileB == -2
SourceFiles == {SourceFileA, SourceFileB}

\* the syntax kinds fixDig tells apart; "Other" is every other kind
DeclarationKinds == {"PropertyAssignment", "JsxAttribute", "BindingElement",
                     "Parameter", "ShorthandPropertyAssignment"}
InternalKinds == {"ElementAccessExpression", "ReturnStatement", "NonNullExpression",
                  "Other"} \cup DeclarationKinds
LeafKinds == {"Identifier", "Other"}

\* node.getSourceFile(): the file above node k under the parent sequence p
RECURSIVE FileOf(_, _)
FileOf(p, k) == IF k <= 0 THEN k ELSE FileOf(p, p[k])

\* k and its ancestors below the source file
RECURSIVE Up(_, _)
Up(p, k) == IF k <= 0 THEN {} ELSE {k} \cup Up(p, p[k])

\* where the next node in document order can hang
NextParents(p) ==
  IF p = <<>> THEN {SourceFileA}
  ELSE Up(p, Len(p)) \cup
       (IF FileOf(p, Len(p)) = SourceFileA THEN SourceFiles ELSE {SourceFileB})

RECURSIVE Shapes(_)
Shapes(n) ==
  IF n = 0 THEN { <<>> }
  ELSE UNION { { Append(p, q) : q \in NextParents(p) } : p \in Shapes(n - 1) }

HasChild(p, k) == \E m \in 1..Len(p) : p[m] = k

RECURSIVE KindSeqs(_, _)
KindSeqs(p, n) ==
  IF n = 0 THEN { <<>> }
  ELSE UNION { { Append(ks, x) : x \in IF HasChild(p, n) THEN InternalKinds ELSE LeafKinds }
               : ks \in KindSeqs(p, n - 1) }

\* the nodes a symbol's value declaration can be
Declarations(p, ks) ==
  { d \in 1..Len(p) : HasChild(p, d) /\ ks[d] \in DeclarationKinds \cup {"Other"} }

\* sym[n] is the value declaration of identifier n's symbol, 0 (undefined) when
\* it has none
RECURSIVE SymSeqs(_, _, _)
SymSeqs(p, ks, n) ==
  IF n = 0 THEN { <<>> }
  ELSE UNION { { Append(sy, d) : d \in IF ks[n] = "Identifier"
                                       THEN {0} \cup Declarations(p, ks) ELSE {0} }
               : sy \in SymSeqs(p, ks, n - 1) }

\* the trees of n nodes
Trees(n) ==
  UNION { UNION { { [parent |-> p, kind |-> ks, sym |-> sy]
                    : sy \in SymSeqs(p, ks, n) }
                  : ks \in KindSeqs(p, n) }
          : p \in Shapes(n) }

Nodes(t) == 1..Len(t.parent)

\* node.getKind()
Kind(t, k) == IF k \in SourceFiles THEN "SourceFile" ELSE t.kind[k]

\* node.getChildren(), in document order
Children(t, k) == { m \in Nodes(t) : t.parent[m] = k }

\* main.ts:7-10  the nodes traverseNode visits from k, in the order of the visits:
\* k itself, then each child's subtree; in pre-order numbering these are k and
\* the nodes after it whose ancestors include k, by increasing number
Visited(t, k) ==
  { m \in Nodes(t) \cup {k} : m = k \/ (IF k \in SourceFiles THEN FileOf(t.parent, m) = k
                                       ELSE k \in Up(t.parent, m)) }

\* main.ts:12-25  current is overwritten at every visited node that satisfies
\* where, so the last such node in the order of the visits is returned
\* (0: undefined); the root has the smallest number of the nodes visited;
\* where is the callback, as a function of the nodes visited
findDeepestNode(t, root, where) ==
  LET hits == { m \in Visited(t, root) : where[m] }
  IN  IF hits = {} THEN 0 ELSE CHOOSE m \in hits : \A h \in hits : h <= m

\* main.ts:27-29
isParentNonNull(t, k) ==
  /\ k \in Nodes(t)
  /\ Kind(t, t.parent[k]) = "NonNullExpression"

\* node.getStart(): the position of the first token of the node, named by the
\* number of the first leaf under it
RECURSIVE Start(_, _)
Start(t, k) ==
  IF Children(t, k) = {} THEN k
  ELSE Start(t, CHOOSE c \in Children(t, k) : \A d \in Children(t, k) : c <= d)

\* the number of ancestors of k
RECURSIVE Depth(_, _)
Depth(t, k) == IF k <= 0 THEN 0 ELSE 1 + Depth(t, t.parent[k])

\* main.ts:82  the predicate of the recursive calls
cond(t, k) == ~isParentNonNull(t, k)

\* main.ts:187  the predicate main passes: the node starts at the diagnostic
baseCondNoParentTest(t, q, k) ==
  IF q.mode = "offset" THEN Start(t, k) = q.start ELSE TRUE

\* the predicate of a call: main's (mode "offset") or cond (mode "unwrapped")
baseCond(t, q, k) ==
  IF q.mode = "offset" THEN Start(t, k) = q.start /\ ~isParentNonNull(t, k)
  ELSE cond(t, k)

\* main.ts:54-58, 65-69, 75-79  the predicate of one tier
Where(t, q, kind, k) == baseCond(t, q, k) /\ Kind(t, k) = kind

TierKinds == {"ElementAccessExpression", "ReturnStatement", "Identifier"}

\* the predicates fixDig is called with on tree t
Predicates(t) ==
  { [mode |-> "unwrapped", start |-> 0] } \cup
  { [mode |-> "offset", start |-> Start(t, k)] : k \in Nodes(t) }

\* ---------------------------------------------------------------- node search
InitFind ==
  /\ DriverIdle
  /\ bang = [in |-> <<>>, out |-> <<>>, done |-> FALSE]
  /\ fx = [pc |-> "idle"]
  /\ \E n \in 1..MaxNodes : \E t \in Trees(n) :
       /\ tree = t
       /\ \E root \in { r \in SourceFiles \cup Nodes(t) : HasChild(t.parent, r) },
             q \in Predicates(t), kind \in TierKinds :
            found = [done |-> FALSE, root |-> root, q |-> q, kind |-> kind, node |-> 0]

\* main.ts:12-25  one call of findDeepestNode
Find ==
  /\ ~found.done
  /\ "root" \in DOMAIN found
  /\ found' = [found EXCEPT !.done = TRUE,
                            !.node = findDeepestNode(tree, found.root,
                                       [k \in Visited(tree, found.root) |->
                                          Where(tree, found.q, found.kind, k)])]
  /\ UNCHANGED <<bang, tree, fx>>
  /\ UNCHANGED driverVars

NextFind == Find

SpecFind == InitFind /\ [][NextFind]_vars

\* ---------------------------------------------------------------- resolver
\* main.ts:54-58
elemAccessNode(t, f) ==
  findDeepestNode(t, f.root, [k \in Visited(t, f.root) |-> Where(t, f.q, "ElementAccessExpression", k)])

\* main.ts:65-69
retStatement(t, f) ==
  findDeepestNode(t, f.root, [k \in Visited(t, f.root) |-> Where(t, f.q, "ReturnStatement", k)])

\* main.ts:75-79
identNode(t, f) ==
  findDeepestNode(t, f.root, [k \in Visited(t, f.root) |-> Where(t, f.q, "Identifier", k)])

\* main.ts:54, 65, 75  the constants of one call of fixDig: the results of its
\* three searches
Enter(t, f) ==
  [f EXCEPT !.sel = [elem  |-> elemAccessNode(t, f),
                     ret   |-> retStatement(t, f),
                     ident |-> identNode(t, f)]]

\* the identifier tier tried before the element access tier
TierIdentFirst(t, f) ==
  IF f.sel.ident # 0 THEN "ident"
  ELSE IF f.sel.elem # 0 THEN "elem"
  ELSE IF f.sel.ret # 0 THEN "ret"
  ELSE "none"

\* the return statement tier tried after the identifier tier
TierReturnLast(t, f) ==
  IF f.sel.elem # 0 THEN "elem"
  ELSE IF f.sel.ident # 0 THEN "ident"
  ELSE IF f.sel.ret # 0 THEN "ret"
  ELSE "none"

\* main.ts:60, 71, 81, 127  the order of the tests of one call of fixDig
Tier(t, f) ==
  IF f.sel.elem # 0 THEN "elem"
  ELSE IF f.sel.ret # 0 THEN "ret"
  ELSE IF f.sel.ident # 0 THEN "ident"
  ELSE "none"

\* main.ts:84  identNode.getSymbol()?.getValueDeclaration()
valueDec(t, f) == t.sym[f.sel.ident]

\* main.ts:96  valueDec.getInitializer(): what follows the name and the
\* separator, 0 (undefined) for a declaration that is its name alone
Initializer(t, d) ==
  IF Cardinality(Children(t, d)) < 2 THEN 0
  ELSE CHOOSE c \in Children(t, d) : \A e \in Children(t, d) : e <= c

\* main.ts:185-188  the call main makes for a diagnostic of file at start
FirstCall(t, file, start, round, wrapped) ==
  Enter(t, [pc |-> "call", file |-> file, start |-> start, root |-> file,
            q |-> [mode |-> "offset", start |-> start], stack |-> <<file>>,
            sel |-> [elem |-> 0, ret |-> 0, ident |-> 0],
            result |-> "pending", edits |-> <<>>, branch |-> "none",
            round |-> round, wrapped |-> wrapped])

InitResolver ==
  /\ DriverIdle
  /\ bang = [in |-> <<>>, out |-> <<>>, done |-> FALSE]
  /\ found = [done |-> FALSE]
  /\ \E n \in 1..MaxNodes : \E t \in Trees(n) :
       /\ tree = t
       /\ \E k \in Nodes(t) :
            fx = FirstCall(t, FileOf(t.parent, k), Start(t, k), 0, 0)

\* return value v of the outermost call; the nested calls return what their
\* callee returns (main.ts:102, 124)
Return(f, v, branch) == [f EXCEPT !.pc = "done", !.result = v, !.branch = branch]

\* node.replaceWithText at main.ts:43 ("bang") or main.ts:120 ("shorthand")
Replace(f, k, how) == [f EXCEPT !.edits = Append(@, [node |-> k, how |-> how])]

\* main.ts:102, 124  fixDig(r, cond); the tree does not change between the
\* calls, so a call on a root that has a call in progress repeats it without
\* end, until the engine throws RangeError (caught at main.ts:189)
Recurse(t, f, r, branch) ==
  IF \E n \in 2..Len(f.stack) : f.stack[n] = r
  THEN Return(f, "RangeError", branch)
  ELSE Enter(t, [f EXCEPT !.root = r, !.q = [mode |-> "unwrapped", start |-> 0],
                          !.stack = Append(@, r), !.branch = branch])

Calling == fx.pc = "call"

IdentTier == Calling /\ Tier(tree, fx) = "ident"

\* main.ts:60-63
ElemAccessTier ==
  /\ Calling
  /\ Tier(tree, fx) = "elem"
  /\ fx' = Return(Replace(fx, fx.sel.elem, "bang"), "true", "elem")
  /\ UNCHANGED <<bang, tree, found>>
  /\ UNCHANGED driverVars

\* main.ts:71-73
ReturnTier ==
  /\ Calling
  /\ Tier(tree, fx) = "ret"
  /\ fx' = Return(fx, "false", "ret")
  /\ UNCHANGED <<bang, tree, found>>
  /\ UNCHANGED driverVars

\* main.ts:127
NoCandidate ==
  /\ Calling
  /\ Tier(tree, fx) = "none"
  /\ fx' = Return(fx, "false", "none")
  /\ UNCHANGED <<bang, tree, found>>
  /\ UNCHANGED driverVars

\* the missing declaration answered by asserting the identifier
NoValueDecBang ==
  /\ IdentTier
  /\ valueDec(tree, fx) = 0
  /\ fx' = Return(Replace(fx, fx.sel.ident, "bang"), "false", "novaluedec")
  /\ UNCHANGED <<bang, tree, found>>
  /\ UNCHANGED driverVars

\* main.ts:85-89
NoValueDec ==
  /\ IdentTier
  /\ valueDec(tree, fx) = 0
  /\ fx' = Return(fx, "false", "novaluedec")
  /\ UNCHANGED <<bang, tree, found>>
  /\ UNCHANGED driverVars

\* main.ts:92-100
NoInitializer ==
  /\ IdentTier
  /\ valueDec(tree, fx) # 0
  /\ Kind(tree, valueDec(tree, fx)) \in {"PropertyAssignment", "JsxAttribute"}
  /\ Initializer(tree, valueDec(tree, fx)) = 0
  /\ fx' = Return(fx, "false", "noinitializer")
  /\ UNCHANGED <<bang, tree, found>>
  /\ UNCHANGED driverVars

\* main.ts:92-96, 102
InitializerTier ==
  /\ IdentTier
  /\ valueDec(tree, fx) # 0
  /\ Kind(tree, valueDec(tree, fx)) \in {"PropertyAssignment", "JsxAttribute"}
  /\ Initializer(tree, valueDec(tree, fx)) # 0
  /\ fx' = Recurse(tree, fx, Initializer(tree, valueDec(tree, fx)), "initializer")
  /\ UNCHANGED <<bang, tree, found>>
  /\ UNCHANGED driverVars

\* main.ts:106-109
BindingElementTier ==
  /\ IdentTier
  /\ valueDec(tree, fx) # 0
  /\ Kind(tree, valueDec(tree, fx)) = "BindingElement"
  /\ fx' = Return(Replace(fx, fx.sel.ident, "bang"), "true", "binding")
  /\ UNCHANGED <<bang, tree, found>>
  /\ UNCHANGED driverVars

\* main.ts:112-115
ParameterTier ==
  /\ IdentTier
  /\ valueDec(tree, fx) # 0
  /\ Kind(tree, valueDec(tree, fx)) = "Parameter"
  /\ fx' = Return(Replace(fx, fx.sel.ident, "bang"), "true", "parameter")
  /\ UNCHANGED <<bang, tree, found>>
  /\ UNCHANGED driverVars

\* main.ts:118-122
ShorthandTier ==
  /\ IdentTier
  /\ valueDec(tree, fx) # 0
  /\ Kind(tree, valueDec(tree, fx)) = "ShorthandPropertyAssignment"
  /\ fx' = Return(Replace(fx, valueDec(tree, fx), "shorthand"), "true", "shorthand")
  /\ UNCHANGED <<bang, tree, found>>
  /\ UNCHANGED driverVars

\* main.ts:124
OtherDeclaration ==
  /\ IdentTier
  /\ valueDec(tree, fx) # 0
  /\ Kind(tree, valueDec(tree, fx)) \notin DeclarationKinds
  /\ fx' = Recurse(tree, fx, valueDec(tree, fx), "declaration")
  /\ UNCHANGED <<bang, tree, found>>
  /\ UNCHANGED driverVars

\* the last node of the subtree of k
End(t, k) == CHOOSE m \in Visited(t, k) : \A h \in Visited(t, k) : h <= m

\* the number of node m once node k has been wrapped: the wrapper takes the
\* number k, its "!" token the number after the subtree of k
NewId(t, k, m) == IF m < k THEN m ELSE IF m <= End(t, k) THEN m + 1 ELSE m + 2

\* main.ts:38, 43, 208-209  the tree of the file once the text of node k is
\* followed by "!" and the project is parsed again: a NonNullExpression holds
\* node k and the "!" token
Wrapped(t, k) ==
  LET bangToken == End(t, k) + 2
      Old(m) == IF m < k THEN m ELSE IF m < bangToken THEN m - 1 ELSE m - 2
      new == 1..(Len(t.parent) + 2)
  IN  [parent |-> [m \in new |-> IF m = k THEN t.parent[k]
                                 ELSE IF m = k + 1 \/ m = bangToken THEN k
                                 ELSE NewId(t, k, t.parent[Old(m)])],
       kind   |-> [m \in new |-> IF m = k THEN "NonNullExpression"
                                 ELSE IF m = bangToken THEN "Other"
                                 ELSE t.kind[Old(m)]],
       sym    |-> [m \in new |-> IF m = k \/ m = bangToken THEN 0
                                 ELSE NewId(t, k, t.sym[Old(m)])]]

\* main.ts:208-210, 185-188  the fix is saved, the project is analysed again
\* and the diagnostic is still reported at its offset: fixDig is called on the
\* new tree for the same offset
Reresolve ==
  /\ fx.pc = "done"
  /\ fx.round = 0
  /\ fx.result = "true"
  /\ fx.edits[1].how = "bang"
  /\ LET k == fx.edits[1].node
     IN  /\ tree' = Wrapped(tree, k)
         /\ fx' = FirstCall(Wrapped(tree, k), fx.file, NewId(tree, k, fx.start), 1, k + 1)
  /\ UNCHANGED <<bang, found>>
  /\ UNCHANGED driverVars

NextResolver ==
  \/ ElemAccessTier \/ ReturnTier \/ NoCandidate \/ NoValueDec
  \/ NoInitializer \/ InitializerTier \/ BindingElementTier \/ ParameterTier
  \/ ShorthandTier \/ OtherDeclaration \/ Reresolve

SpecResolver == InitResolver /\ [][NextResolver]_vars

\* ---------------------------------------------------------------- properties
Indices == 0..(Len(diagnostics) - 1)

\* the last step passed diagnostics[ev.idx] to fixDig
Called == ev.type \in {"fixed", "none", "throws"}

\* C1: when the loop exits, every diagnostic of the current list whose message
\* contains the keyword has its hash in the skip set
C1_FixedPointAtExit ==
  pc = "done" =>
    \A k \in Indices :
      HasKeyword(At(diagnostics, k)) => digHash(At(diagnostics, k)) \in skippedDigs

\* C2: when the loop exits, no file holds a text replacement that was not saved
C2_NoUnsavedEditAtExit == pc = "done" => dirty = {}

\* C3: a diagnostic is not passed to fixDig when a diagnostic of the same file
\* was fixed earlier in the same generation
C3_NoAttemptOnFixedFile ==
  [][ev'.type \in {"fixed", "none", "throws"} =>
       \A k \in fixedNow :
         At(diagnostics, k).file # At(diagnostics, ev'.idx).file]_vars

\* C4: the first entry of every list the loop has finished with was examined
C4_FirstEntryExamined ==
  (pc = "done" /\ Len(diagnostics) > 0) => 0 \in examined

\* C5: at the save, every diagnostic of a file that was not mutated has been
\* examined or jumped over
C5_ReloadOnlyAtEnd ==
  pc = "saving" =>
    \A k \in Indices :
      k \in (examined \cup staleSkipped) \/ At(diagnostics, k).file \in dirty

\* C6: the skip set only grows, and a diagnostic whose hash is in the skip set
\* is not passed to fixDig
C6_SkipSetGrowsNoRetry ==
  [][/\ skippedDigs \subseteq skippedDigs'
     /\ ev'.type \in {"fixed", "none", "throws"} =>
          digHash(At(diagnostics, ev'.idx)) \notin skippedDigs]_vars

\* a diagnostic with the keyword was filtered out by the skip set in a later
\* generation than the one its identity failed in
C6_Witness ==
  /\ reloads >= 1
  /\ ev.type = "filtered"
  /\ HasKeyword(At(diagnostics, ev.idx))
  /\ Identity(At(diagnostics, ev.idx)) \in failedIds

\* C7 as stated: over a run no identity is fixed more than once
C7_NoIdentityFixedTwice ==
  \A k \in fixedNow :
    /\ Identity(At(diagnostics, k)) \notin fixedBefore
    /\ \A m \in fixedNow : Identity(At(diagnostics, m)) = Identity(At(diagnostics, k)) => m = k

\* C7 as amended: an identity whose fix attempt failed is not fixed afterwards
\* (successful fixes are not recorded, and an identity that is reported again
\* after a successful fix is fixed again)
C7_NoFixAfterFailure ==
  [][ev'.type = "fixed" => Identity(At(diagnostics, ev'.idx)) \notin failedIds]_vars

\* an identity was fixed a second time, in a later generation, after the loop
\* had gone past a diagnostic whose identity had failed
C7_Witness ==
  /\ ev.type = "fixed"
  /\ Identity(At(diagnostics, ev.idx)) \in fixedBefore
  /\ \E k \in examined :
       /\ k < ev.idx
       /\ Identity(At(diagnostics, k)) \in failedIds
       /\ digHash(At(diagnostics, k)) \in skippedDigs

\* C8: a diagnostic without the keyword is not passed to fixDig, and the hash
\* of no such diagnostic is in the skip set
C8_NoKeywordNeverAttempted ==
  /\ Called => HasKeyword(At(diagnostics, ev.idx))
  /\ \A d \in Diags : ~HasKeyword(d) => digHash(d) \notin skippedDigs

\* a diagnostic without the keyword was filtered out in a later generation,
\* after some attempt had failed
C8_Witness ==
  /\ reloads >= 1
  /\ ev.type = "filtered"
  /\ ~HasKeyword(At(diagnostics, ev.idx))
  /\ skippedDigs # {}

\* C9: a failed attempt adds the hash to the skip set and moves the cursor to
\* the next index; it does not end the loop, jump over diagnostics, save or
\* change the list
C9_FailureIsLocal ==
  [][ev'.type \in {"none", "throws"} =>
       /\ skippedDigs' = skippedDigs \cup {digHash(At(diagnostics, i))}
       /\ pc' = "loop"
       /\ i' = i + 1
       /\ staleSkipped' = staleSkipped
       /\ diagnostics' = diagnostics
       /\ reloads' = reloads
       /\ dirty' = dirty]_vars

\* fixDig threw on a diagnostic that is followed by one of the same file and
\* is the last but one of the list, with an edit waiting to be saved
C9_Witness ==
  /\ ev.type = "throws"
  /\ pc = "loop"
  /\ i = Len(diagnostics) - 1
  /\ At(diagnostics, i).file = At(diagnostics, ev.idx).file
  /\ dirty # {}

\* C10: a second run on the saved output of a finished run replaces no text
C10_SecondRunFixesNothing == run = 2 => ev.type # "fixed"

C11_ExitsOrKeepsFixing == <>(pc = "done") \/ []<>(ev.type = "fixed")

KeywordCount(ds) == Cardinality({k \in 1..Len(ds) : HasKeyword(ds[k])})

\* C18: every list obtained after a save (which follows a successful fix) has
\* fewer diagnostics with the keyword than the list before it
C18_CountDecreases ==
  [][(pc = "saved" /\ pc' = "loop") =>
       KeywordCount(diagnostics') < KeywordCount(diagnostics)]_vars

\* the text that has "!" right before the terminator that ends the trimmed
\* text and every other character where it was
BangExpected(t) ==
  LET e == Len(TrimEnd(t))
  IN  IF e > 0 /\ t[e] = ";"
      THEN SubSeq(t, 1, e - 1) \o <<"!">> \o SubSeq(t, e, Len(t))
      ELSE t \o <<"!">>

Matches == { k \in Visited(tree, found.root) : Where(tree, found.q, found.kind, k) }

\* C13: findDeepestNode returns a node that satisfies the predicate and lies at
\* the greatest depth of all such nodes under the root, and returns none only
\* when no node under the root satisfies it
C13_ReturnsDeepestMatch ==
  found.done =>
    IF Matches = {} THEN found.node = 0
    ELSE /\ found.node \in Matches
         /\ \A k \in Matches : Depth(tree, k) <= Depth(tree, found.node)
\* C19: every call of fixDig returns true or false
C19_ReturnsTrueOrFalse == fx.pc = "done" => fx.result \in {"true", "false"}

\* C20: every node whose text a call of fixDig replaces lies in the file of the
\* diagnostic
C20_EditsInDiagnosticFile ==
  fx.pc = "done" =>
    \A n \in 1..Len(fx.edits) : FileOf(tree.parent, fx.edits[n].node) = fx.file
\* C12: a call of fixDig for which both an element access expression and an
\* identifier under the root satisfy the predicate replaces the text of the
\* element access expression and returns, without entering the identifier tier
C12_ElementAccessFirst ==
  [][(/\ fx.pc = "call"
      /\ elemAccessNode(tree, fx) # 0
      /\ identNode(tree, fx) # 0)
     => /\ fx'.pc = "done"
        /\ fx'.branch = "elem"
        /\ fx'.edits = << [node |-> elemAccessNode(tree, fx), how |-> "bang"] >>]_vars

\* the element access expression was chosen over an identifier nested in it
C12_Witness ==
  /\ fx.pc = "done"
  /\ fx.branch = "elem"
  /\ identNode(tree, fx) \in Visited(tree, fx.edits[1].node)

C15_NoDoubleWrap ==
  /\ fx.pc = "done"
     => \A n \in 1..Len(fx.edits) :
          fx.edits[n].how = "bang" => ~isParentNonNull(tree, fx.edits[n].node)
  /\ (fx.pc = "call" /\ fx.round = 1)
     => fx.wrapped \notin {fx.sel.elem, fx.sel.ret, fx.sel.ident}

\* the offset was resolved again after a fix, and another node got the suffix
C15_Witness ==
  /\ fx.pc = "done"
  /\ fx.round = 1
  /\ fx.result = "true"
  /\ fx.edits[1].how = "bang"
  /\ Start(tree, fx.wrapped) = fx.start

\* C16: a call of fixDig that returns false has replaced no text, and a call
\* that returns true has replaced the text of exactly one node
C16_FalseReplacesNothing ==
  fx.pc = "done" =>
    /\ fx.result = "false" => fx.edits = <<>>
    /\ fx.result = "true" => Len(fx.edits) = 1

\* a nested call failed and the outermost call returned false
C16_Witness ==
  /\ fx.pc = "done"
  /\ fx.result = "false"
  /\ Len(fx.stack) > 1
====
